---- MODULE Spec2Model ----
(***************************************************************************)
(* Model of fix_email_service.py: the script reads emailService.ts, runs   *)
(* three re.sub rewrites over the text in memory, opens the same file for  *)
(* writing (which truncates it), writes the text back and prints a         *)
(* confirmation.                                                           *)
(*                                                                         *)
(* A text is a sequence of symbols.  The literals the three patterns look  *)
(* for are single symbols wherever no pattern can see inside them:         *)
(*   "a"  accountId: account.id      (the marker is "a" followed by ",")   *)
(*   "k"  companyId: account.companyId   (inserted as "k" followed by ",") *)
(*   "p"  account.companyId                                                *)
(*   "F"  from:                                                            *)
(*   "O"  const email: Email = {                                           *)
(*   "G"  this.emailModel.getEmailsForUser(                                *)
(*   "n"  newline, "s" space, "t" tab, and the characters , { } ) and "x"  *)
(*        (any other character).                                           *)
(***************************************************************************)
EXTENDS Integers, Sequences, FiniteSets

\* ---------------------------------------------------------------- bounds
MaxSegs == 3
MaxRuns == 2

\* -------------------------------------------------------------- literals
AccountIdLit == <<"a", ",">>
CompanyIdLit == <<"k", ",">>
Rule2Insert == <<"n", "s", "s", "s", "s", "s", "s">> \o CompanyIdLit
Rule3Insert == <<",", "s", "p", ",", "s", "{">>

IsWs(c) == c \in {"n", "s", "t"}

LitAt(T, i, L) ==
  /\ i >= 1
  /\ i + Len(L) - 1 <= Len(T)
  /\ T[i] = L[1]
  /\ SubSeq(T, i, i + Len(L) - 1) = L

\* index of the last character of the longest whitespace run starting at i
\* (i - 1 when there is none): the greedy \s+ and \s*
RECURSIVE WsEnd(_, _)
WsEnd(T, i) ==
  IF i <= Len(T) /\ IsWs(T[i]) THEN WsEnd(T, i + 1) ELSE i - 1

\* index of the first comma at or after i (0 when there is none): where the
\* greedy [^,]+ has to stop
RECURSIVE FirstComma(_, _)
FirstComma(T, i) ==
  IF i > Len(T) THEN 0
  ELSE IF T[i] = "," THEN i
  ELSE FirstComma(T, i + 1)

SetMax(S) == CHOOSE m \in S : \A y \in S : y <= m
SetMin(S) == CHOOSE m \in S : \A y \in S : m <= y

\* ------------------------------------------------------------ pattern 1
\* (accountId: account\.id,)\n(\s+)(from:) tried at position i: the index of
\* the last matched character, 0 when the pattern does not match at i
Match1(T, i) ==
  IF LitAt(T, i, AccountIdLit) /\ i + 2 <= Len(T) /\ T[i + 2] = "n"
  THEN LET e == WsEnd(T, i + 3)
       IN IF e >= i + 3 /\ e + 1 <= Len(T) /\ T[e + 1] = "F"
          THEN e + 1 ELSE 0
  ELSE 0

\* the new line indented by six spaces, as rule 2 does, instead of by \2
Repl1FixedIndent(T, i, e) ==
  LET W == SubSeq(T, i + 3, e - 1)
  IN AccountIdLit \o Rule2Insert \o <<"n">> \o W \o <<"F">>

\* \1\n\2companyId: account.companyId,\n\2\3
Repl1(T, i, e) ==
  LET W == SubSeq(T, i + 3, e - 1)
  IN AccountIdLit \o <<"n">> \o W \o CompanyIdLit \o <<"n">> \o W \o <<"F">>

\* ------------------------------------------------------------ pattern 2
\* (\s+from:) tried right after the marker that starts at j: the index of
\* "from:", 0 when it does not match
Tail2NoFrom(T, j) ==
  LET e == WsEnd(T, j + 2)
  IN IF e >= j + 2 THEN e ELSE 0

Tail2(T, j) ==
  LET e == WsEnd(T, j + 2)
  IN IF e >= j + 2 /\ e + 1 <= Len(T) /\ T[e + 1] = "F" THEN e + 1 ELSE 0

\* [^}]* in place of [^}]+
Span2Star(T, i, j) ==
  /\ j >= i + 1
  /\ \A q \in (i + 1)..(j - 1) : T[q] # "}"

\* .+ (with DOTALL) in place of [^}]+
Span2AnyChar(T, i, j) ==
  j >= i + 2

\* [^}]+ between the opener at i and a marker starting at j
Span2(T, i, j) ==
  /\ j >= i + 2
  /\ \A q \in (i + 1)..(j - 1) : T[q] # "}"

\* the starts j of the markers at which the whole of pattern 2 matches when
\* it is tried at the opener at i
Cands2(T, i) ==
  {j \in (i + 1)..Len(T) :
     /\ LitAt(T, j, AccountIdLit)
     /\ Span2(T, i, j)
     /\ Tail2(T, j) > 0}

\* [^}]+ is greedy: of the markers that let the pattern match, the regex
\* engine takes the last one
Pick2(S) == SetMax(S)

\* start of the marker that ends group 1, 0 when pattern 2 fails at i
Marker2(T, i) ==
  IF i <= Len(T) /\ T[i] = "O" /\ Cands2(T, i) # {}
  THEN Pick2(Cands2(T, i)) ELSE 0

Match2(T, i) ==
  LET j == Marker2(T, i)
  IN IF j > 0 THEN Tail2(T, j) ELSE 0

\* \1\n      companyId: account.companyId,\2
Repl2(T, i, e) ==
  LET j == Marker2(T, i)
  IN SubSeq(T, i, j + 1) \o Rule2Insert \o SubSeq(T, j + 2, e)

\* ------------------------------------------------------------ pattern 3
\* \s+ in place of \s*
Match3Plus(T, i) ==
  IF i <= Len(T) /\ T[i] = "G"
  THEN LET c == FirstComma(T, i + 1)
       IN IF c >= i + 2
          THEN LET e == WsEnd(T, c + 1)
               IN IF e >= c + 1 /\ e + 1 <= Len(T) /\ T[e + 1] = "{"
                  THEN e + 1 ELSE 0
          ELSE 0
  ELSE 0

\* this\.emailModel\.getEmailsForUser\(([^,]+),\s*\{ tried at i
Match3(T, i) ==
  IF i <= Len(T) /\ T[i] = "G"
  THEN LET c == FirstComma(T, i + 1)
       IN IF c >= i + 2
          THEN LET e == WsEnd(T, c + 1)
               IN IF e + 1 <= Len(T) /\ T[e + 1] = "{" THEN e + 1 ELSE 0
          ELSE 0
  ELSE 0

\* this.emailModel.getEmailsForUser(\1, account.companyId, {
Repl3(T, i, e) ==
  LET c == FirstComma(T, i + 1)
  IN <<"G">> \o SubSeq(T, i + 1, c - 1) \o Rule3Insert

\* --------------------------------------------------------------- re.sub
MatchEnd(r, T, i) ==
  CASE r = 1 -> Match1(T, i)
    [] r = 2 -> Match2(T, i)
    [] r = 3 -> Match3(T, i)

Repl(r, T, i, e) ==
  CASE r = 1 -> Repl1(T, i, e)
    [] r = 2 -> Repl2(T, i, e)
    [] r = 3 -> Repl3(T, i, e)

\* re.sub scans from the left, replaces the leftmost match and goes on
\* right after it; characters no match covers are copied
RECURSIVE SubFrom(_, _, _)
SubFrom(r, T, i) ==
  IF i > Len(T) THEN <<>>
  ELSE LET e == MatchEnd(r, T, i)
       IN IF e > 0
          THEN Repl(r, T, i, e) \o SubFrom(r, T, e + 1)
          ELSE <<T[i]>> \o SubFrom(r, T, i + 1)

ReSub(r, T) == SubFrom(r, T, 1)

\* the matches re.sub replaces, as <<start, end>> pairs
RECURSIVE MatchesFrom(_, _, _)
MatchesFrom(r, T, i) ==
  IF i > Len(T) THEN {}
  ELSE LET e == MatchEnd(r, T, i)
       IN IF e > 0
          THEN {<<i, e>>} \cup MatchesFrom(r, T, e + 1)
          ELSE MatchesFrom(r, T, i + 1)

Matches(r, T) == MatchesFrom(r, T, 1)

ApplyAll(T) == ReSub(3, ReSub(2, ReSub(1, T)))

\* --------------------------------------------------------------- inputs
Segments ==
  { <<"O", "s", "a", ",", "s", "F">>,
    <<"O">>,
    <<"a", ",", "n", "t", "s", "F">>,
    <<"a", ",", "n", "F">>,
    <<"}">>,
    <<"G", "x", ",", "s", "{">>,
    <<"G", "x", ")">>,
    <<"x", ",", "{">> }

RECURSIVE Texts(_)
Texts(n) ==
  IF n = 0 THEN {<<>>}
  ELSE LET P == Texts(n - 1)
       IN P \cup {t \o s : t \in P, s \in Segments}

Steps == <<"read", "rule1", "rule2", "rule3", "open", "write", "print">>

\* ---------------------------------------------------------------- state
VARIABLES file, content, pc, stdout, run, orig, stages, log

vars == <<file, content, pc, stdout, run, orig, stages, log>>

Init ==
  /\ file \in Texts(MaxSegs)
  /\ content = <<>>
  /\ pc = "read"
  /\ stdout = <<>>
  /\ run = 1
  /\ orig = file
  /\ stages = <<>>
  /\ log = <<>>

\* with open(..., 'r') as f: content = f.read()
Read ==
  /\ pc = "read"
  /\ content' = file
  /\ pc' = "rule1"
  /\ stages' = <<file>>
  /\ log' = Append(log, "read")
  /\ UNCHANGED <<file, stdout, run, orig>>

\* open(..., 'r') or f.read() raises: the script ends with a traceback
ReadFail ==
  /\ pc = "read"
  /\ pc' = "failed"
  /\ UNCHANGED <<file, content, stdout, run, orig, stages, log>>

Rule1 ==
  /\ pc = "rule1"
  /\ content' = ReSub(1, content)
  /\ pc' = "rule2"
  /\ stages' = Append(stages, content')
  /\ log' = Append(log, "rule1")
  /\ UNCHANGED <<file, stdout, run, orig>>

\* rule 2 given the text as read instead of the text rule 1 left
Rule2OnOriginal ==
  /\ pc = "rule2"
  /\ content' = ReSub(2, stages[1])
  /\ pc' = "rule3"
  /\ stages' = Append(stages, content')
  /\ log' = Append(log, "rule2")
  /\ UNCHANGED <<file, stdout, run, orig>>

Rule2 ==
  /\ pc = "rule2"
  /\ content' = ReSub(2, content)
  /\ pc' = "rule3"
  /\ stages' = Append(stages, content')
  /\ log' = Append(log, "rule2")
  /\ UNCHANGED <<file, stdout, run, orig>>

Rule3 ==
  /\ pc = "rule3"
  /\ content' = ReSub(3, content)
  /\ pc' = "open"
  /\ stages' = Append(stages, content')
  /\ log' = Append(log, "rule3")
  /\ UNCHANGED <<file, stdout, run, orig>>

\* open(..., 'w') succeeds: the file is truncated to length 0
OpenWrite ==
  /\ pc = "open"
  /\ file' = <<>>
  /\ pc' = "write"
  /\ log' = Append(log, "open")
  /\ UNCHANGED <<content, stdout, run, orig, stages>>

\* open(..., 'w') raises: nothing was truncated
OpenWriteFail ==
  /\ pc = "open"
  /\ pc' = "failed"
  /\ UNCHANGED <<file, content, stdout, run, orig, stages, log>>

\* the write placed before the last rewrite: the text rule 2 left is written
WriteBeforeRule3 ==
  /\ pc = "write"
  /\ file' = stages[3]
  /\ pc' = "print"
  /\ log' = Append(log, "write")
  /\ UNCHANGED <<content, stdout, run, orig, stages>>

\* f.write(content) and the close at the end of the with block succeed
Write ==
  /\ pc = "write"
  /\ file' = content
  /\ pc' = "print"
  /\ log' = Append(log, "write")
  /\ UNCHANGED <<content, stdout, run, orig, stages>>

\* f.write(content) or the flush on close raises (disk full, I/O error):
\* the file keeps whatever part of the text reached it
WriteFail ==
  /\ pc = "write"
  /\ \E n \in 0..Len(content) :
       /\ n < Len(content) \/ n = 0
       /\ file' = SubSeq(content, 1, n)
  /\ pc' = "failed"
  /\ UNCHANGED <<content, stdout, run, orig, stages, log>>

\* print("Fixed email Service!")
PrintFixed ==
  /\ pc = "print"
  /\ stdout' = Append(stdout, "Fixed email Service!")
  /\ pc' = "done"
  /\ log' = Append(log, "print")
  /\ UNCHANGED <<file, content, run, orig, stages>>

\* the script is started again on the file the previous run left
Rerun ==
  /\ pc = "done"
  /\ run < MaxRuns
  /\ run' = run + 1
  /\ pc' = "read"
  /\ content' = <<>>
  /\ stdout' = <<>>
  /\ orig' = file
  /\ stages' = <<>>
  /\ log' = <<>>
  /\ UNCHANGED file

Next ==
  \/ Read
  \/ ReadFail
  \/ Rule1
  \/ Rule2
  \/ Rule3
  \/ OpenWrite
  \/ OpenWriteFail
  \/ Write
  \/ WriteFail
  \/ PrintFixed

Spec == Init /\ [][Next]_vars

\* the same script started up to MaxRuns times in a row on the same file
NextRerun ==
  \/ Next
  \/ Rerun

SpecRerun == Init /\ [][NextRerun]_vars

\* ------------------------------------------------- what the patterns mean
\* The occurrences of the three patterns, stated position by position and
\* without reference to the scanning order of re.sub.
AllWs(T, lo, hi) == \A q \in lo..hi : IsWs(T[q])

Range(T) == {T[q] : q \in 1..Len(T)}

Contains(T, L) == \E i \in 1..(Len(T) - Len(L) + 1) : LitAt(T, i, L)

IsPrefix(P, T) == Len(P) <= Len(T) /\ SubSeq(T, 1, Len(P)) = P

\* the marker at i, one newline, the whitespace i+3..f-1, "from:" at f
Occ1(T, i, f) ==
  /\ LitAt(T, i, AccountIdLit)
  /\ f >= i + 4 /\ f <= Len(T)
  /\ T[i + 2] = "n"
  /\ T[f] = "F"
  /\ AllWs(T, i + 3, f - 1)

\* the opener at o, the marker at j, whitespace, "from:" at f
Occ2(T, o, j, f) ==
  /\ o >= 1 /\ T[o] = "O"
  /\ j >= o + 2
  /\ LitAt(T, j, AccountIdLit)
  /\ f >= j + 3 /\ f <= Len(T)
  /\ T[f] = "F"
  /\ AllWs(T, j + 2, f - 1)
  /\ \A q \in (o + 1)..(j - 1) : T[q] # "}"

\* the call prefix at g, the comma at c, the brace at b
Occ3(T, g, c, b) ==
  /\ g >= 1 /\ T[g] = "G"
  /\ c >= g + 2 /\ c <= Len(T)
  /\ T[c] = ","
  /\ b > c /\ b <= Len(T)
  /\ T[b] = "{"
  /\ AllWs(T, c + 1, b - 1)
  /\ \A q \in (g + 1)..(c - 1) : T[q] # ","

Markers(T) == {i \in 1..Len(T) : LitAt(T, i, AccountIdLit)}

Occs1(T) ==
  UNION {{<<i, f>> : f \in {h \in 1..Len(T) : Occ1(T, i, h)}} :
           i \in Markers(T)}

Occs2(T) ==
  UNION {{<<m[1], m[2], f>> : f \in {h \in 1..Len(T) : Occ2(T, m[1], m[2], h)}} :
           m \in {o \in 1..Len(T) : T[o] = "O"} \X Markers(T)}

Occs3(T) ==
  UNION {{<<m[1], m[2], b>> : b \in {h \in 1..Len(T) : Occ3(T, m[1], m[2], h)}} :
           m \in {g \in 1..Len(T) : T[g] = "G"}
                    \X {c \in 1..Len(T) : T[c] = ","}}

NoPatternMatches(T) ==
  /\ \A i \in 1..Len(T) :
       LitAt(T, i, AccountIdLit) => \A f \in 1..Len(T) : ~Occ1(T, i, f)
  /\ \A o \in 1..Len(T) :
       T[o] = "O" =>
         \A j \in 1..Len(T) :
           LitAt(T, j, AccountIdLit) => \A f \in 1..Len(T) : ~Occ2(T, o, j, f)
  /\ \A g \in 1..Len(T) :
       T[g] = "G" =>
         \A c \in 1..Len(T) :
           T[c] = "," => \A b \in 1..Len(T) : ~Occ3(T, g, c, b)

Terminated == pc \in {"done", "failed"}

\* ---------------------------------------------------------------- C1
\* C1: the rule set is idempotent: a second run of the script on the file
\* the first run wrote leaves the file exactly as the first run left it.
C1_Idempotent ==
  (run = 2 /\ pc = "done") => file = orig

\* ---------------------------------------------------------------- C2
\* C2 as stated: whenever a run has ended, with or without an I/O failure,
\* the file holds the original text or the fully transformed text, and a
\* failed run printed nothing.
C2_NoPartialWrites ==
  Terminated =>
    /\ file \in {orig, ApplyAll(orig)}
    /\ (pc = "failed" => stdout = <<>>)

\* C2 amended: whenever a run has ended the file holds the original text,
\* the fully transformed text or, when the write failed after the file was
\* opened for writing, a prefix (possibly empty) of the fully transformed
\* text; a text only some of the rules were applied to is never written,
\* and a failed run printed nothing.
C2_NoPartialTransform ==
  /\ pc = "failed" =>
       /\ stdout = <<>>
       /\ \/ file = orig
          \/ /\ log = SubSeq(Steps, 1, 5)
             /\ \E full \in {ApplyAll(orig)} : IsPrefix(file, full)
  /\ pc = "done" =>
       /\ file = ApplyAll(orig)
       /\ Len(stdout) = 1

C2_Witness ==
  /\ pc = "failed"
  /\ log = SubSeq(Steps, 1, 5)
  /\ file # <<>>
  /\ file # orig
  /\ file # ApplyAll(orig)
  /\ ApplyAll(orig) # ReSub(1, orig)

\* ---------------------------------------------------------------- C7
\* C7: the steps of a run happen in the order read, rule 1, rule 2, rule 3,
\* open, write, print; each rule works on the text the previous rule left;
\* the file is written once and what a completed run wrote is
\* rule 3 of rule 2 of rule 1 of the text read.
C7_FixedOrder ==
  /\ IsPrefix(log, Steps)
  /\ pc = "rule1" => log = SubSeq(Steps, 1, 1) /\ stages = <<orig>>
  /\ pc = "rule2" =>
       /\ log = SubSeq(Steps, 1, 2)
       /\ stages = <<orig, ReSub(1, orig)>>
  /\ pc = "rule3" =>
       /\ log = SubSeq(Steps, 1, 3)
       /\ Len(stages) = 3
       /\ stages[3] = ReSub(2, stages[2])
  /\ pc = "open" =>
       /\ log = SubSeq(Steps, 1, 4)
       /\ Len(stages) = 4
       /\ stages[4] = ReSub(3, stages[3])
       /\ content = ReSub(3, ReSub(2, ReSub(1, orig)))
  /\ pc = "write" => log = SubSeq(Steps, 1, 5)
  /\ pc = "print" => log = SubSeq(Steps, 1, 6)
  /\ pc = "done" =>
       /\ log = Steps
       /\ file = ReSub(3, ReSub(2, ReSub(1, orig)))

C7_Witness ==
  /\ pc = "done"
  /\ stages[4] # stages[3]
  /\ stages[3] # stages[2] \/ stages[2] # stages[1]
  /\ ReSub(1, ReSub(2, orig)) # ReSub(2, ReSub(1, orig))

\* ---------------------------------------------------------------- C3
\* C3: when none of the three patterns occurs anywhere in the text read,
\* every rule leaves the text alone and the text written back is the text
\* read, character for character.
C3_NoMatchNoChange ==
  (pc = "done" /\ NoPatternMatches(orig)) =>
    /\ stages = <<orig, orig, orig, orig>>
    /\ file = orig

C3_Witness ==
  /\ pc = "done"
  /\ NoPatternMatches(orig)
  /\ {"O", "a", "F", "G"} \subseteq Range(orig)
  /\ file = orig

\* ---------------------------------------------------------------- C4
\* what rule 1 has to produce: before every "from:" that ends an occurrence
\* of pattern 1 the new line and the indentation W of that occurrence, every
\* other character as it was
Inserted1(T, f) ==
  IF T[f] = "F" /\ \E m \in Occs1(T) : m[2] = f
  THEN LET m == CHOOSE m \in Occs1(T) : m[2] = f
       IN CompanyIdLit \o <<"n">> \o SubSeq(T, m[1] + 3, f - 1)
  ELSE <<>>

RECURSIVE Expected1From(_, _)
Expected1From(T, p) ==
  IF p > Len(T) THEN <<>>
  ELSE Inserted1(T, p) \o <<T[p]>> \o Expected1From(T, p + 1)

Expected1(T) == Expected1From(T, 1)

Rewritten1(W) ==
  AccountIdLit \o <<"n">> \o W \o CompanyIdLit \o <<"n">> \o W \o <<"F">>

\* C4: for every occurrence in the text read of the marker, a newline, a
\* whitespace run W and "from:", the output of rule 1 (and the file a
\* completed run writes) contains marker, newline, W, the companyId line,
\* newline, W, "from:"; every occurrence is rewritten and the text outside
\* the occurrences is unchanged.
C4_Rule1 ==
  /\ pc = "rule2" =>
       /\ stages[2] = Expected1(stages[1])
       /\ \A m \in Occs1(stages[1]) :
            Contains(stages[2], Rewritten1(SubSeq(stages[1], m[1] + 3, m[2] - 1)))
  /\ pc = "done" =>
       \A m \in Occs1(orig) :
         Contains(file, Rewritten1(SubSeq(orig, m[1] + 3, m[2] - 1)))

C4_Witness ==
  /\ pc = "done"
  /\ Cardinality(Occs1(orig)) >= 2
  /\ Contains(file, Rewritten1(<<"t", "s">>))
  /\ ~Contains(orig, CompanyIdLit)

\* ---------------------------------------------------------------- C6
\* what rule 3 has to produce: the comma, whitespace and brace that end an
\* occurrence of pattern 3 become ", account.companyId, {", every other
\* character as it was
RECURSIVE Expected3From(_, _)
Expected3From(T, p) ==
  IF p > Len(T) THEN <<>>
  ELSE IF T[p] = "," /\ \E m \in Occs3(T) : m[2] = p
       THEN LET m == CHOOSE m \in Occs3(T) : m[2] = p
            IN Rule3Insert \o Expected3From(T, m[3] + 1)
       ELSE <<T[p]>> \o Expected3From(T, p + 1)

Expected3(T) == Expected3From(T, 1)

Rewritten3(T, m) == <<"G">> \o SubSeq(T, m[1] + 1, m[2] - 1) \o Rule3Insert

\* C6: every occurrence of the call prefix, a non-empty comma-free first
\* argument, a comma, optional whitespace and "{" is rewritten to the call
\* prefix, the same argument and ", account.companyId, {"; nothing else is
\* changed by rule 3.
C6_Rule3 ==
  /\ pc = "open" =>
       /\ stages[4] = Expected3(stages[3])
       /\ \A m \in Occs3(stages[3]) :
            Contains(stages[4], Rewritten3(stages[3], m))
  /\ pc = "done" =>
       \A m \in Occs3(orig) : Contains(file, Rewritten3(orig, m))

C6_Witness ==
  /\ pc = "done"
  /\ Cardinality({m[2] : m \in Occs3(orig)}) >= 2
  /\ Contains(orig, <<"G", "x", ",", "s", "{">>)
  /\ Contains(file, <<"G", "x", ",", "s", "p", ",", "s", "{">>)
  /\ ~Contains(orig, <<"p">>)

\* ------------------------------------------------- counting per marker
MarkerCount(T) == Cardinality(Markers(T))

\* which marker, counted from the left, is the one that starts at i
Ordinal(T, i) == Cardinality({j \in Markers(T) : j <= i})

KthMarker(T, k) == CHOOSE i \in Markers(T) : Ordinal(T, i) = k

\* end of the stretch that belongs to the k-th marker: the character before
\* the next marker, or the end of the text
StretchEnd(T, k) ==
  IF k < MarkerCount(T) THEN KthMarker(T, k + 1) - 1 ELSE Len(T)

\* companyId lines in the stretch of the k-th marker
KAfter(T, k) ==
  Cardinality({q \in KthMarker(T, k)..StretchEnd(T, k) :
                 LitAt(T, q, CompanyIdLit)})

\* index of the first "from:" after position i, 0 when there is none
FirstFrom(T, i) ==
  IF \E q \in (i + 1)..Len(T) : T[q] = "F"
  THEN SetMin({q \in (i + 1)..Len(T) : T[q] = "F"}) ELSE 0

\* a companyId line stands between the k-th marker and the next "from:"
KBetween(T, k) ==
  LET i == KthMarker(T, k)
  IN \E q \in i..FirstFrom(T, i) : LitAt(T, q, CompanyIdLit)

\* T with ins put in after each position of P
RECURSIVE InsertFrom(_, _, _, _)
InsertFrom(T, P, ins, q) ==
  IF q > Len(T) THEN <<>>
  ELSE <<T[q]>> \o (IF q \in P THEN ins ELSE <<>>) \o InsertFrom(T, P, ins, q + 1)

InsertAfter(T, P, ins) == InsertFrom(T, P, ins, 1)

\* ---------------------------------------------------------------- C5
\* C5: wherever the text given to rule 2 has the opener, at least one
\* character none of which is "}", the marker, whitespace that does not
\* start with a newline and "from:", the output of rule 2 has the companyId
\* line between that marker and that "from:"; the text before the first
\* opener and the text after the last "}" are as they were.
C5_Rule2EveryLiteral ==
  pc = "rule3" =>
    LET T == stages[2]
        U == stages[3]
        first == SetMin({o \in 1..Len(T) : T[o] = "O"} \cup {Len(T) + 1})
        last == SetMax({c \in 1..Len(T) : T[c] = "}"} \cup {0})
        tailOk == \A m \in Occs2(T) : m[3] < last
    IN /\ \A m \in Occs2(T) :
            T[m[2] + 2] # "n" => KBetween(U, Ordinal(T, m[2]))
       /\ SubSeq(U, 1, first - 1) = SubSeq(T, 1, first - 1)
       /\ (last > 0 /\ tailOk) =>
            SubSeq(U, Len(U) - (Len(T) - last), Len(U)) = SubSeq(T, last, Len(T))

\* ---------------------------------------------------------------- C8
\* where rule 2 inserted: the last character of the marker of each match
Inserts2(T) == {Marker2(T, m[1]) + 1 : m \in Matches(2, T)}

\* C8: every insertion rule 2 makes stands right after a marker that an
\* opener precedes with at least one character and no "}" between them, so
\* no match of rule 2 runs across a "}"; rule 2 changes nothing else.
C8_Rule2StaysInsideLiteral ==
  pc = "rule3" =>
    LET T == stages[2]
    IN /\ stages[3] = InsertAfter(T, Inserts2(T), Rule2Insert)
       /\ \A m \in Matches(2, T) :
            /\ T[m[1]] = "O"
            /\ \A q \in m[1]..m[2] : T[q] # "}"
       /\ \A p \in Inserts2(T) :
            /\ LitAt(T, p - 1, AccountIdLit)
            /\ \E o \in 1..(p - 3) :
                 /\ T[o] = "O"
                 /\ \A q \in o..p : T[q] # "}"

C8_Witness ==
  /\ pc = "rule3"
  /\ stages[3] # stages[2]
  /\ LET T == stages[2]
     IN \E o \in 1..Len(T) : \E c \in (o + 1)..Len(T) : \E j \in (c + 1)..Len(T) :
          /\ T[o] = "O"
          /\ T[c] = "}"
          /\ LitAt(T, j, AccountIdLit)
          /\ Tail2(T, j) > 0
          /\ \A q \in (o + 1)..(c - 1) : T[q] # "O"

\* ---------------------------------------------------------------- C9
\* index of the ")" that closes the call opened by the prefix at g (every
\* call prefix opens one parenthesis), 0 when the call is not closed
RECURSIVE CloseFrom(_, _, _)
CloseFrom(T, q, depth) ==
  IF q > Len(T) THEN 0
  ELSE IF T[q] = ")" THEN (IF depth = 1 THEN q ELSE CloseFrom(T, q + 1, depth - 1))
  ELSE IF T[q] = "G" THEN CloseFrom(T, q + 1, depth + 1)
  ELSE CloseFrom(T, q + 1, depth)

ClosePos(T, g) == CloseFrom(T, g + 1, 1)

\* C9: what rule 3 captures is the first argument of the call, so every
\* account.companyId it inserts stands before the ")" that closes that call;
\* a text all of whose getEmailsForUser calls are closed before any comma is
\* left unchanged by rule 3.
C9_Rule3InsideCall ==
  pc = "open" =>
    LET T == stages[3]
        calls == {g \in 1..Len(T) : T[g] = "G"}
    IN /\ \A m \in Matches(3, T) :
            ClosePos(T, m[1]) = 0 \/ ClosePos(T, m[1]) > FirstComma(T, m[1] + 1)
       /\ (\A g \in calls :
             /\ ClosePos(T, g) > 0
             /\ \A q \in g..ClosePos(T, g) : T[q] # ",") => stages[4] = T

\* --------------------------------------------------------------- C10
\* C10: in one run rule 1 and rule 2 never both insert after the same
\* marker; every marker of the text read has at most one more companyId line
\* after it in the result, and the number of markers stays the same.
C10_NoDoubleInsertion ==
  /\ pc = "rule3" =>
       /\ MarkerCount(stages[2]) = MarkerCount(stages[1])
       /\ MarkerCount(stages[3]) = MarkerCount(stages[1])
       /\ {Ordinal(stages[1], m[1]) : m \in Matches(1, stages[1])}
            \cap {Ordinal(stages[2], p) : p \in Inserts2(stages[2])} = {}
       /\ \A k \in 1..MarkerCount(stages[1]) :
            KAfter(stages[3], k) <= KAfter(stages[1], k) + 1
  /\ pc = "done" =>
       /\ MarkerCount(file) = MarkerCount(orig)
       /\ \A k \in 1..MarkerCount(orig) :
            KAfter(file, k) <= KAfter(orig, k) + 1

C10_Witness ==
  /\ pc = "done"
  /\ Matches(1, stages[1]) # {}
  /\ Matches(2, stages[2]) # {}
  /\ MarkerCount(orig) >= 2
  /\ \E k \in 1..MarkerCount(orig) : KAfter(file, k) = 1
  /\ \E o \in Occs2(orig) : \E i \in Occs1(orig) : o[1] < i[1] /\ o[3] < i[1]

TypeOK ==
  /\ pc \in {"read", "rule1", "rule2", "rule3", "open", "write", "print",
             "done", "failed"}
  /\ run \in 1..MaxRuns
  /\ Len(stages) <= 4
====
